---- MODULE Spec2Model ----
(***************************************************************************)
(* A model of the rumorshub/mailer package: the SMTP client (smtp.go), its *)
(* LOGIN authenticator, the pseudorandom id generator (deps.go), the       *)
(* sendmail client and the plugin initialisation (plugin.go).              *)
(*                                                                         *)
(* Go strings whose content the code inspects are sequences of one-rune    *)
(* strings (<<"a","@","b">>); strings the code only compares for equality  *)
(* or passes on are TLA+ strings.                                          *)
(***************************************************************************)
EXTENDS Integers, Sequences, FiniteSets, TLC

VARIABLES
    \* --- one SMTP session that authenticates with smtpLoginAuth
    apc,          \* position of the session: init, connected, challenge, authed, done, failed
    sess,         \* the SmtpClient the session belongs to
    srv,          \* the smtp.ServerInfo handed to Start
    startRes,     \* what the last Start call returned
    nextIn,       \* the arguments of the last Next call
    nextRes,      \* what the last Next call returned
    emitted,      \* the responses of the authenticator written to the server
    transmitted,  \* whether the message was handed to the server
    sendErr,      \* the error the send call returns ("" for none)
    \* --- the process-wide generator of deps.go and its concurrent callers
    mr,           \* the state of the generator: tap, feed, vec
    cpc,          \* each caller's position in PseudorandomStringWithAlphabet
    creg,         \* each caller's local values (what it loaded and computed)
    cbuf,         \* each caller's b, the bytes set so far
    clen,         \* each caller's requested length
    \* --- SmtpClient.Send on a Message the caller holds
    msg,          \* the caller's Message object (Send receives a pointer to it)
    origFrom,     \* From as the caller constructed the Message
    lastArg,      \* the Message as the last Send call received it
    lastClient,   \* the SmtpClient that performed the last Send
    smtpAuth,     \* the authenticator the last Send chose
    yak,          \* the mail the last Send assembled
    sendRes,      \* how the last Send ended
    sends,        \* the number of Send calls so far
    \* --- SendMail.Send
    proc,         \* the process the last SendMail.Send ran: path, arguments, standard input
    smRes,        \* how the last SendMail.Send ended
    \* --- Plugin.Init
    cfg,          \* what the Configurer holds and whether decoding it succeeds
    fs,           \* the executable files of the machine
    pMailer,      \* the plugin's mailer field
    initRes,      \* what Init returned ("not called" before the call)
    provided      \* what the last call of p.Mailer() returned

authVars == <<apc, sess, srv, startRes, nextIn, nextRes, emitted, transmitted, sendErr>>

randVars == <<mr, cpc, creg, cbuf, clen>>

sendVars == <<msg, origFrom, lastArg, lastClient, smtpAuth, yak, sendRes, sends>>

smVars == <<proc, smRes>>

plugVars == <<cfg, fs, pMailer, initRes, provided>>

vars == <<authVars, randVars, sendVars, smVars, plugVars>>

-----------------------------------------------------------------------------
(* Strings *)

Uppers == <<"A","B","C","D","E","F","G","H","I","J","K","L","M",
            "N","O","P","Q","R","S","T","U","V","W","X","Y","Z">>

Lowers == <<"a","b","c","d","e","f","g","h","i","j","k","l","m",
            "n","o","p","q","r","s","t","u","v","w","x","y","z">>

\* unicode.ToLower on the runes of the model: A-Z map to a-z, the rest is kept
ToLowerCh(c) ==
    IF \E i \in 1..Len(Uppers) : Uppers[i] = c
    THEN Lowers[CHOOSE i \in 1..Len(Uppers) : Uppers[i] = c]
    ELSE c

\* strings.ToLower
ToLower(s) == [i \in 1..Len(s) |-> ToLowerCh(s[i])]

\* the rune at position i upper-cased when i is in mask
UpperAt(s, mask) ==
    [i \in 1..Len(s) |->
        IF i \in mask /\ (\E j \in 1..Len(Lowers) : Lowers[j] = s[i])
        THEN Uppers[CHOOSE j \in 1..Len(Lowers) : Lowers[j] = s[i]]
        ELSE s[i]]

-----------------------------------------------------------------------------
(* AUTH LOGIN: smtpLoginAuth *)

SmtpAuthPlain == "PLAIN"
SmtpAuthLogin == "LOGIN"

NoErr == ""
ErrUnencrypted == "unencrypted connection"

\* a Go []byte: nil, or a (possibly empty) byte string
NilBytes == [nil |-> TRUE, data |-> ""]
Bytes(s) == [nil |-> FALSE, data |-> s]

isLocalhost(name) == name = "localhost" \/ name = "127.0.0.1" \/ name = "::1"

\* a gate that trusts whatever is not localhost: the negation of the host test lost
StartGateInverted(server) ==
    IF ~server.TLS /\ isLocalhost(server.Name)
    THEN [mech |-> "", resp |-> NilBytes, err |-> ErrUnencrypted]
    ELSE [mech |-> "LOGIN", resp |-> NilBytes, err |-> NoErr]

\* a gate that demands TLS and a local host at once
StartGateOr(server) ==
    IF ~server.TLS \/ ~isLocalhost(server.Name)
    THEN [mech |-> "", resp |-> NilBytes, err |-> ErrUnencrypted]
    ELSE [mech |-> "LOGIN", resp |-> NilBytes, err |-> NoErr]

\* smtpLoginAuth.Start
smtpLoginAuth_Start(server) ==
    IF ~server.TLS /\ ~isLocalhost(server.Name)
    THEN [mech |-> "", resp |-> NilBytes, err |-> ErrUnencrypted]
    ELSE [mech |-> "LOGIN", resp |-> NilBytes, err |-> NoErr]

UsernamePrompt == <<"u","s","e","r","n","a","m","e",":">>
PasswordPrompt == <<"p","a","s","s","w","o","r","d",":">>

\* Next without the test of more: answers a prompt even when the server wants no data
NextIgnoringMore(a, fromServer, more) ==
    CASE ToLower(fromServer) = UsernamePrompt -> [resp |-> Bytes(a.username), err |-> NoErr]
      [] ToLower(fromServer) = PasswordPrompt -> [resp |-> Bytes(a.password), err |-> NoErr]
      [] OTHER -> [resp |-> NilBytes, err |-> NoErr]

\* smtpLoginAuth.Next
smtpLoginAuth_Next(a, fromServer, more) ==
    IF more
    THEN CASE ToLower(fromServer) = UsernamePrompt -> [resp |-> Bytes(a.username), err |-> NoErr]
           [] ToLower(fromServer) = PasswordPrompt -> [resp |-> Bytes(a.password), err |-> NoErr]
           [] OTHER -> [resp |-> NilBytes, err |-> NoErr]
    ELSE [resp |-> NilBytes, err |-> NoErr]

-----------------------------------------------------------------------------
(* SmtpClient: the choice of the authenticator *)

NoAuth == [kind |-> "none", username |-> "", password |-> "", host |-> ""]

\* the test of the credentials with "and": a password alone attaches nothing
SelectAuthBothNeeded(c) ==
    IF c.Username # "" /\ c.Password # ""
    THEN IF c.AuthMethod = SmtpAuthLogin
         THEN [kind |-> "LOGIN", username |-> c.Username, password |-> c.Password, host |-> ""]
         ELSE [kind |-> "PLAIN", username |-> c.Username, password |-> c.Password, host |-> c.Host]
    ELSE NoAuth

\* SmtpClient.Send, the authenticator: smtpAuth stays nil without credentials
SelectAuth(c) ==
    IF c.Username # "" \/ c.Password # ""
    THEN IF c.AuthMethod = SmtpAuthLogin
         THEN [kind |-> "LOGIN", username |-> c.Username, password |-> c.Password, host |-> ""]
         ELSE [kind |-> "PLAIN", username |-> c.Username, password |-> c.Password, host |-> c.Host]
    ELSE NoAuth

-----------------------------------------------------------------------------
(* deps.go: the pseudorandom strings and the generator mr they share *)

Digits == <<"0","1","2","3","4","5","6","7","8","9">>

defaultRandomAlphabet == Uppers \o Lowers \o Digits

\* math/rand's additive lagged Fibonacci source behind mr, scaled down: RngLen
\* words (607 in Go), the tap RngTapOff behind the feed (273), words modulo
\* RngMod (2^64)
RngLen == 3
RngTapOff == 1
RngMod == 64
NumSeeds == 1

\* the state rand.NewSource(seed) leaves: tap 0, feed rngLen - rngTap, vec from the seed
Seeded(seed) ==
    [tap |-> 0, feed |-> RngLen - RngTapOff,
     vec |-> [i \in 0..(RngLen - 1) |-> (seed * 17 + i * 29 + 5) % RngMod]]

\* one step of the source, taken by one caller alone:
\* tap--, feed-- (each wrapped at 0), x = vec[feed] + vec[tap], vec[feed] = x
Uint64(r) ==
    LET t1 == r.tap - 1
        t == IF t1 < 0 THEN t1 + RngLen ELSE t1
        f1 == r.feed - 1
        f == IF f1 < 0 THEN f1 + RngLen ELSE f1
        x == (r.vec[f] + r.vec[t]) % RngMod
    IN [rng |-> [tap |-> t, feed |-> f, vec |-> [r.vec EXCEPT ![f] = x]], val |-> x]

\* mr.Intn(m): a number in 0..m-1 from the next word of the source
Intn(r, m) == LET d == Uint64(r) IN [rng |-> d.rng, val |-> d.val % m]

RECURSIVE FillBytes(_, _, _, _)
\* the loop of PseudorandomStringWithAlphabet: b[i] = alphabet[mr.Intn(m)] for
\* each of the remaining n positions
FillBytes(n, alphabet, r, b) ==
    IF n = 0 THEN [rng |-> r, str |-> b]
    ELSE LET d == Intn(r, Len(alphabet)) IN
         FillBytes(n - 1, alphabet, d.rng, Append(b, alphabet[d.val + 1]))

\* PseudorandomStringWithAlphabet, run by one caller without interference
PseudorandomStringWithAlphabet(length, alphabet, r) == FillBytes(length, alphabet, r, <<>>)

\* PseudorandomString
PseudorandomString(length, r) == PseudorandomStringWithAlphabet(length, defaultRandomAlphabet, r)

(* Concurrent callers.  mr is a *rand.Rand made by rand.New over a plain
   source: nothing locks it, so the loads and stores of one caller's step
   interleave with those of the others. *)

NumCallers == 2
MaxIdLen == 2

Callers == 1..NumCallers

NoReg == [v |-> 0, f |-> 0]

RandIdle ==
    /\ mr = Seeded(1)
    /\ cpc = [c \in Callers |-> "idle"]
    /\ creg = [c \in Callers |-> NoReg]
    /\ cbuf = [c \in Callers |-> <<>>]
    /\ clen = [c \in Callers |-> 0]

\* init() of deps.go: the generator is seeded once, from the clock
RandInit ==
    /\ \E seed \in 1..NumSeeds : mr = Seeded(seed)
    /\ cpc = [c \in Callers |-> "idle"]
    /\ creg = [c \in Callers |-> NoReg]
    /\ cbuf = [c \in Callers |-> <<>>]
    /\ clen = [c \in Callers |-> 0]

Goto(c, to) == cpc' = [cpc EXCEPT ![c] = to]
SetReg(c, r) == creg' = [creg EXCEPT ![c] = r]

\* a caller enters PseudorandomStringWithAlphabet(length, defaultRandomAlphabet)
Call(c) ==
    /\ cpc[c] = "idle"
    /\ \E length \in 0..MaxIdLen :
        /\ clen' = [clen EXCEPT ![c] = length]
        /\ Goto(c, IF length = 0 THEN "done" ELSE "tapLd")
    /\ cbuf' = [cbuf EXCEPT ![c] = <<>>]
    /\ UNCHANGED <<mr, creg>>

\* rng.tap--, the load
TapLoad(c) ==
    /\ cpc[c] = "tapLd"
    /\ SetReg(c, [creg[c] EXCEPT !.v = mr.tap])
    /\ Goto(c, "tapSt")
    /\ UNCHANGED <<mr, cbuf, clen>>

\* rng.tap--, the store
TapStore(c) ==
    /\ cpc[c] = "tapSt"
    /\ mr' = [mr EXCEPT !.tap = creg[c].v - 1]
    /\ Goto(c, "tapChk")
    /\ UNCHANGED <<creg, cbuf, clen>>

\* if rng.tap < 0
TapCheck(c) ==
    /\ cpc[c] = "tapChk"
    /\ SetReg(c, [creg[c] EXCEPT !.v = mr.tap])
    /\ Goto(c, IF mr.tap < 0 THEN "tapFix" ELSE "feedLd")
    /\ UNCHANGED <<mr, cbuf, clen>>

\* rng.tap += rngLen
TapFix(c) ==
    /\ cpc[c] = "tapFix"
    /\ mr' = [mr EXCEPT !.tap = creg[c].v + RngLen]
    /\ Goto(c, "feedLd")
    /\ UNCHANGED <<creg, cbuf, clen>>

\* rng.feed--, the load
FeedLoad(c) ==
    /\ cpc[c] = "feedLd"
    /\ SetReg(c, [creg[c] EXCEPT !.v = mr.feed])
    /\ Goto(c, "feedSt")
    /\ UNCHANGED <<mr, cbuf, clen>>

\* rng.feed--, the store
FeedStore(c) ==
    /\ cpc[c] = "feedSt"
    /\ mr' = [mr EXCEPT !.feed = creg[c].v - 1]
    /\ Goto(c, "feedChk")
    /\ UNCHANGED <<creg, cbuf, clen>>

\* if rng.feed < 0
FeedCheck(c) ==
    /\ cpc[c] = "feedChk"
    /\ SetReg(c, [creg[c] EXCEPT !.v = mr.feed])
    /\ Goto(c, IF mr.feed < 0 THEN "feedFix" ELSE "vecLd")
    /\ UNCHANGED <<mr, cbuf, clen>>

\* rng.feed += rngLen
FeedFix(c) ==
    /\ cpc[c] = "feedFix"
    /\ mr' = [mr EXCEPT !.feed = creg[c].v + RngLen]
    /\ Goto(c, "vecLd")
    /\ UNCHANGED <<creg, cbuf, clen>>

\* x := rng.vec[rng.feed] + rng.vec[rng.tap]: an index outside the array panics
VecLoad(c) ==
    /\ cpc[c] = "vecLd"
    /\ IF mr.feed \in 0..(RngLen - 1) /\ mr.tap \in 0..(RngLen - 1)
       THEN /\ SetReg(c, [v |-> (mr.vec[mr.feed] + mr.vec[mr.tap]) % RngMod, f |-> mr.feed])
            /\ Goto(c, "vecSt")
       ELSE /\ Goto(c, "panic")
            /\ UNCHANGED creg
    /\ UNCHANGED <<mr, cbuf, clen>>

\* rng.vec[rng.feed] = x, and the caller's b[i] = alphabet[x % m]
VecStore(c) ==
    /\ cpc[c] = "vecSt"
    /\ mr' = [mr EXCEPT !.vec[creg[c].f] = creg[c].v]
    /\ cbuf' = [cbuf EXCEPT ![c] =
                  Append(@, defaultRandomAlphabet[(creg[c].v % Len(defaultRandomAlphabet)) + 1])]
    /\ Goto(c, IF Len(cbuf[c]) + 1 = clen[c] THEN "done" ELSE "tapLd")
    /\ UNCHANGED <<creg, clen>>

NextRand ==
    \E c \in Callers :
        \/ Call(c) /\ UNCHANGED <<authVars, sendVars, smVars, plugVars>>
        \/ TapLoad(c) /\ UNCHANGED <<authVars, sendVars, smVars, plugVars>>
        \/ TapStore(c) /\ UNCHANGED <<authVars, sendVars, smVars, plugVars>>
        \/ TapCheck(c) /\ UNCHANGED <<authVars, sendVars, smVars, plugVars>>
        \/ TapFix(c) /\ UNCHANGED <<authVars, sendVars, smVars, plugVars>>
        \/ FeedLoad(c) /\ UNCHANGED <<authVars, sendVars, smVars, plugVars>>
        \/ FeedStore(c) /\ UNCHANGED <<authVars, sendVars, smVars, plugVars>>
        \/ FeedCheck(c) /\ UNCHANGED <<authVars, sendVars, smVars, plugVars>>
        \/ FeedFix(c) /\ UNCHANGED <<authVars, sendVars, smVars, plugVars>>
        \/ VecLoad(c) /\ UNCHANGED <<authVars, sendVars, smVars, plugVars>>
        \/ VecStore(c) /\ UNCHANGED <<authVars, sendVars, smVars, plugVars>>

-----------------------------------------------------------------------------
(* An SMTP session that authenticates with smtpLoginAuth *)

MaxChallenges == 2

Hosts == {"localhost", "127.0.0.1", "::1", "example.com", "localhost.example.com"}

NoAddress == [Name |-> <<>>, Address |-> <<>>]

\* the clients whose sessions use the LOGIN authenticator
LoginClients ==
    { c \in [Host : Hosts, Port : {25}, Username : {"", "test"}, Password : {"", "123456"},
             Tls : BOOLEAN, AuthMethod : {SmtpAuthLogin}, From : {NoAddress}] :
        SelectAuth(c).kind = "LOGIN" }

\* the case variants of a prompt the server may send
CaseMasks(s) == {{}, 1..Len(s), {1}, {i \in 1..Len(s) : i % 2 = 0}} \cup {{i} : i \in 2..Len(s)}

Prompts ==
    {UpperAt(UsernamePrompt, m) : m \in CaseMasks(UsernamePrompt)}
    \cup {UpperAt(PasswordPrompt, m) : m \in CaseMasks(PasswordPrompt)}
    \cup { <<"e","x","a","m","p","l","e",":">>, <<>>,
           <<"u","s","e","r","n","a","m","e">>, <<"U","s","e","r","n","a","m","e",":"," ">>,
           <<"p","a","s","s",":">> }

NoStart == [mech |-> "", resp |-> NilBytes, err |-> "not called"]
NoNextIn == [fromServer |-> <<>>, more |-> FALSE, called |-> FALSE]
NoNext == [resp |-> NilBytes, err |-> NoErr]
NoClient == [Host |-> "", Port |-> 0, Username |-> "", Password |-> "", Tls |-> FALSE,
             AuthMethod |-> "", From |-> NoAddress]

AuthInit ==
    /\ apc = "init"
    /\ sess = NoClient
    /\ srv = [Name |-> "", TLS |-> FALSE]
    /\ startRes = NoStart
    /\ nextIn = NoNextIn
    /\ nextRes = NoNext
    /\ emitted = <<>>
    /\ transmitted = FALSE
    /\ sendErr = NoErr

\* the connection of Send: TLS from the start when c.Tls, else plaintext that the
\* server may upgrade (STARTTLS) before the authentication
Connect ==
    /\ apc = "init"
    /\ \E c \in LoginClients, upgraded \in BOOLEAN :
        /\ sess' = c
        /\ srv' = [Name |-> c.Host, TLS |-> c.Tls \/ upgraded]
    /\ apc' = "connected"
    /\ UNCHANGED <<startRes, nextIn, nextRes, emitted, transmitted, sendErr>>

\* the session starts the authentication: Start is called once, and an error
\* of Start ends the session before anything of the mechanism is sent
AuthStart ==
    /\ apc = "connected"
    /\ LET r == smtpLoginAuth_Start(srv) IN
        /\ startRes' = r
        /\ IF r.err # NoErr
           THEN apc' = "failed" /\ sendErr' = r.err
           ELSE apc' = "challenge" /\ sendErr' = sendErr
    /\ UNCHANGED <<sess, srv, nextIn, nextRes, emitted, transmitted>>

\* a reply of the server during the authentication: a challenge (334, more),
\* the acceptance (235, no more data wanted), both handed to Next
ServerReply ==
    /\ apc = "challenge"
    /\ \E prompt \in Prompts, more \in BOOLEAN :
        LET a == SelectAuth(sess)
            r == smtpLoginAuth_Next(a, prompt, more) IN
        /\ more => Len(emitted) < MaxChallenges
        /\ nextIn' = [fromServer |-> prompt, more |-> more, called |-> TRUE]
        /\ nextRes' = r
        /\ IF r.err # NoErr
           THEN apc' = "failed" /\ sendErr' = r.err /\ emitted' = emitted
           ELSE IF r.resp.nil
                THEN apc' = "authed" /\ sendErr' = sendErr /\ emitted' = emitted
                ELSE apc' = "challenge" /\ sendErr' = sendErr
                     /\ emitted' = Append(emitted, r.resp.data)
    /\ UNCHANGED <<sess, srv, startRes, transmitted>>

\* the server refuses the authentication
ServerReject ==
    /\ apc = "challenge"
    /\ apc' = "failed"
    /\ sendErr' = "auth rejected"
    /\ UNCHANGED <<sess, srv, startRes, nextIn, nextRes, emitted, transmitted>>

\* the envelope and the message go out after the authentication
Transmit ==
    /\ apc = "authed"
    /\ apc' = "done"
    /\ transmitted' = TRUE
    /\ UNCHANGED <<sess, srv, startRes, nextIn, nextRes, emitted, sendErr>>

NextAuth ==
    \/ Connect /\ UNCHANGED <<randVars, sendVars, smVars, plugVars>>
    \/ AuthStart /\ UNCHANGED <<randVars, sendVars, smVars, plugVars>>
    \/ ServerReply /\ UNCHANGED <<randVars, sendVars, smVars, plugVars>>
    \/ ServerReject /\ UNCHANGED <<randVars, sendVars, smVars, plugVars>>
    \/ Transmit /\ UNCHANGED <<randVars, sendVars, smVars, plugVars>>

-----------------------------------------------------------------------------
(* Addresses and messages *)

\* format(Address, includeName): "Name" <address> with a name and includeName,
\* else the bare address (the names of the model need no escaping)
FormatAddress(a, withName) ==
    IF withName /\ a.Name # <<>>
    THEN <<"\"">> \o a.Name \o <<"\"", " ", "<">> \o a.Address \o <<">">>
    ELSE a.Address

\* addressesToStrings: one string per address, in the order of the input
addressesToStrings(addresses, withName) ==
    [i \in 1..Len(addresses) |-> FormatAddress(addresses[i], withName)]

RECURSIVE Split(_, _)
\* strings.Split(s, sep) for a one-rune sep: the parts between the separators
Split(s, sep) ==
    IF \E i \in 1..Len(s) : s[i] = sep
    THEN LET i == CHOOSE k \in 1..Len(s) : s[k] = sep /\ \A j \in 1..(k - 1) : s[j] # sep
         IN <<SubSeq(s, 1, i - 1)>> \o Split(SubSeq(s, i + 1, Len(s)), sep)
    ELSE <<s>>

\* strings.EqualFold on the runes of the model
EqualFold(a, b) == ToLower(a) = ToLower(b)

MessageIDName == <<"M","e","s","s","a","g","e","-","I","D">>

MessageIdLen == 15

-----------------------------------------------------------------------------
(* SmtpClient.Send *)

\* lines 57-62: empty fields of m.From are filled from the client's From
FillFrom(c, m) ==
    [m EXCEPT !.From = [Name |-> IF m.From.Name = <<>> THEN c.From.Name ELSE m.From.Name,
                        Address |-> IF m.From.Address = <<>> THEN c.From.Address
                                    ELSE m.From.Address]]

\* the recipients without their display names
SendRecipientsBare(m) ==
    [to |-> IF Len(m.To) > 0 THEN addressesToStrings(m.To, FALSE) ELSE <<>>,
     bcc |-> IF Len(m.Bcc) > 0 THEN addressesToStrings(m.Bcc, FALSE) ELSE <<>>,
     cc |-> IF Len(m.Cc) > 0 THEN addressesToStrings(m.Cc, FALSE) ELSE <<>>]

\* lines 97-107: yak.To, yak.Bcc, yak.Cc with addressesToStrings(..., true)
SendRecipients(m) ==
    [to |-> IF Len(m.To) > 0 THEN addressesToStrings(m.To, TRUE) ELSE <<>>,
     bcc |-> IF Len(m.Bcc) > 0 THEN addressesToStrings(m.Bcc, TRUE) ELSE <<>>,
     cc |-> IF Len(m.Cc) > 0 THEN addressesToStrings(m.Cc, TRUE) ELSE <<>>]

\* the header looked for with == instead of EqualFold
hasMessageIdExact(headers) == \E k \in DOMAIN headers : k = MessageIDName

\* lines 115-121: whether a key of m.Headers is Message-ID, ignoring case
hasMessageId(headers) == \E k \in DOMAIN headers : EqualFold(k, MessageIDName)

\* lines 116-121: yak.AddHeader(k, v) for each header of the caller
CallerHeaders(headers) == {<<k, headers[k]>> : k \in DOMAIN headers}

\* lines 122-131: the default Message-ID, from the generator r; the generator
\* advances only when an id is made
DefaultMessageId(m, r) ==
    LET fromParts == Split(m.From.Address, "@") IN
    IF ~hasMessageId(m.Headers) /\ Len(fromParts) = 2
    THEN LET id == PseudorandomString(MessageIdLen, r) IN
         [rng |-> id.rng,
          headers |-> {<<MessageIDName, <<"<">> \o id.str \o <<"@">> \o fromParts[2] \o <<">">>>>}]
    ELSE [rng |-> r, headers |-> {}]

NoMail ==
    [addr |-> <<"", 0>>, tls |-> FALSE, auth |-> NoAuth, fromName |-> <<>>, from |-> <<>>,
     subject |-> <<>>, html |-> <<>>, plain |-> <<>>, to |-> <<>>, bcc |-> <<>>, cc |-> <<>>,
     attachments |-> {}, headers |-> {}]

\* lines 74-131: the mail Send assembles from the filled message m
BuildMail(c, m, idHeaders) ==
    LET rcpt == SendRecipients(m) IN
    [addr |-> <<c.Host, c.Port>>, tls |-> c.Tls, auth |-> SelectAuth(c),
     fromName |-> m.From.Name, from |-> m.From.Address,
     subject |-> m.Subject, html |-> m.HTML, plain |-> m.Text,
     to |-> rcpt.to, bcc |-> rcpt.bcc, cc |-> rcpt.cc,
     attachments |-> m.Attachments,
     headers |-> CallerHeaders(m.Headers) \cup idHeaders]

MaxSends == 2

AddrAB == [Name |-> <<>>, Address |-> <<"a","@","b",".","c","o","m">>]
AddrXY == [Name |-> <<"X","y">>, Address |-> <<"x","@","y",".","o","r","g">>]
RcptBob == [Name |-> <<"B","o","b">>, Address |-> <<"b","o","b","@","b",".","c","o","m">>]
RcptCy == [Name |-> <<>>, Address |-> <<"c","y","@","c",".","i","o">>]
RcptDee == [Name |-> <<"D","e","e">>, Address |-> <<"d","e","e","@","d",".","i","o">>]

\* the SMTP clients of the model: every choice of credentials and method on one
\* plaintext client, and every default From with and without TLS
Clients ==
    [Host : {"smtp.example.com"}, Port : {587}, Username : {"", "test"},
     Password : {"", "123456"}, Tls : {FALSE}, AuthMethod : {SmtpAuthPlain, SmtpAuthLogin, ""},
     From : {AddrAB}]
    \cup
    [Host : {"mail.example.org"}, Port : {465}, Username : {"test"},
     Password : {"123456"}, Tls : BOOLEAN, AuthMethod : {SmtpAuthLogin},
     From : {NoAddress, AddrAB, AddrXY}]

HeaderSets ==
    { <<>>,
      [k \in {MessageIDName} |-> <<"<","1","@","c","a","l","l","e","r",">">>],
      [k \in {<<"m","e","s","s","a","g","e","-","i","d">>} |-> <<"<","2","@","c","a","l","l","e","r",">">>],
      [k \in {<<"X","-","T","a","g">>, <<"M","E","S","S","A","G","E","-","I","D">>} |-> <<"<","3","@","c","a","l","l","e","r",">">>],
      [k \in {<<"M","e","s","s","a","g","e","-","I","D","s">>} |-> <<"<","4","@","c","a","l","l","e","r",">">>] }

\* the recipient lists of the messages: to, cc, bcc
RecipientLists ==
    { <<<<>>, <<>>, <<>>>>,
      <<<<RcptBob, RcptCy>>, <<>>, <<>>>>,
      <<<<RcptBob>>, <<RcptDee>>, <<RcptCy, RcptBob>>>>,
      <<<<>>, <<>>, <<RcptDee>>>> }

\* the From fields of the messages
FromFields ==
    { NoAddress, [Name |-> <<"A","l">>, Address |-> <<>>], [Name |-> <<>>, Address |-> <<"a","l","@","a",".","n","e","t">>],
      [Name |-> <<"A","l">>, Address |-> <<"n","o","d","o","m","a","i","n">>], [Name |-> <<>>, Address |-> <<"a","@","b","@","c">>] }

\* the messages a caller hands to Send
SmtpMessages ==
    { [From |-> f, To |-> r[1], Cc |-> r[2], Bcc |-> r[3], Subject |-> <<"H","i">>,
       HTML |-> <<"<","p",">","h","i","<","/","p",">">>, Text |-> t, Attachments |-> a, Headers |-> h] :
        f \in FromFields,
        r \in RecipientLists, t \in {<<"h","i">>}, a \in {{}}, h \in HeaderSets }

NoMessage ==
    [From |-> NoAddress, To |-> <<>>, Cc |-> <<>>, Bcc |-> <<>>, Subject |-> <<>>, HTML |-> <<>>,
     Text |-> <<>>, Attachments |-> {}, Headers |-> <<>>]

SendIdle ==
    /\ msg = NoMessage
    /\ origFrom = NoAddress
    /\ lastArg = NoMessage
    /\ lastClient = NoClient
    /\ smtpAuth = NoAuth
    /\ yak = NoMail
    /\ sendRes = "none"
    /\ sends = 0

\* the caller has constructed a Message; nothing was sent yet
SendInit ==
    /\ msg \in SmtpMessages
    /\ origFrom = msg.From
    /\ lastArg = NoMessage
    /\ lastClient = NoClient
    /\ smtpAuth = NoAuth
    /\ yak = NoMail
    /\ sendRes = "none"
    /\ sends = 0

\* c.Send(m) with m the caller's Message: From is filled in the caller's object,
\* the authenticator is chosen, and either the TLS setup fails (no mail is
\* assembled) or the mail is assembled and yak.Send() succeeds or fails
Send(c) ==
    /\ sends < MaxSends
    /\ sends' = sends + 1
    /\ lastArg' = msg
    /\ lastClient' = c
    /\ msg' = FillFrom(c, msg)
    /\ smtpAuth' = SelectAuth(c)
    /\ origFrom' = origFrom
    /\ \/ /\ c.Tls
          /\ sendRes' = "tls error"
          /\ yak' = NoMail
          /\ mr' = mr
       \/ LET id == DefaultMessageId(FillFrom(c, msg), mr) IN
          /\ yak' = BuildMail(c, FillFrom(c, msg), id.headers)
          /\ mr' = id.rng
          /\ sendRes' \in {"ok", "send error"}

NextSend == \E c \in Clients : Send(c) /\ UNCHANGED <<authVars, cpc, creg, cbuf, clen, smVars, plugVars>>

-----------------------------------------------------------------------------
(* SendMail.Send *)

RECURSIVE Join(_, _)
\* strings.Join(elems, sep)
Join(elems, sep) ==
    IF Len(elems) = 0 THEN <<>>
    ELSE IF Len(elems) = 1 THEN elems[1]
    ELSE elems[1] \o sep \o Join(Tail(elems), sep)

RECURSIVE Concat(_)
Concat(parts) == IF Len(parts) = 0 THEN <<>> ELSE parts[1] \o Concat(Tail(parts))

\* a rune outside ASCII, named by its code point
EAcute == "U+00E9"

\* the runes of the model that are no printable ASCII (and no tab)
NonPrintable == {EAcute, "\n", "\r"}

\* mime.QEncoding, one rune: '_' for a space, =XX for each byte that is not a
\* printable ASCII byte or is one of = ? _, the rune itself otherwise
QRune(c) ==
    CASE c = " " -> <<"_">>
      [] c = EAcute -> <<"=","C","3","=","A","9">>
      [] c = "\n" -> <<"=","0","A">>
      [] c = "\r" -> <<"=","0","D">>
      [] c = "\t" -> <<"=","0","9">>
      [] c = "=" -> <<"=","3","D">>
      [] c = "?" -> <<"=","3","F">>
      [] c = "_" -> <<"=","5","F">>
      [] OTHER -> <<c>>

\* mime.QEncoding.Encode("utf-8", s): s itself when all of it is printable ASCII
\* or tab, else one encoded word (the subjects of the model fit in one word)
QEncode(s) ==
    IF \E i \in 1..Len(s) : s[i] \in NonPrintable
    THEN <<"=","?","u","t","f","-","8","?","q","?">> \o Concat([i \in 1..Len(s) |-> QRune(s[i])]) \o <<"?","=">>
    ELSE s

IsSpace(c) == c \in {" ", "\t", "\n", "\r"}

\* textproto.TrimString: the ASCII white space at both ends removed
TrimString(s) ==
    LET keep == {i \in 1..Len(s) : ~IsSpace(s[i])} IN
    IF keep = {} THEN <<>>
    ELSE SubSeq(s, CHOOSE i \in keep : \A j \in keep : i <= j,
                   CHOOSE i \in keep : \A j \in keep : i >= j)

\* what http.Header.Write does to a value: CR and LF become spaces, then the
\* value is trimmed
HeaderValue(v) ==
    TrimString([i \in 1..Len(v) |-> IF v[i] \in {"\n", "\r"} THEN " " ELSE v[i]])

HeaderLine(name, v) == name \o <<":"," ">> \o HeaderValue(v) \o <<"\r","\n">>

\* http.Header.Write: the four headers, sorted by name
WriteHeaders(subject, from, to) ==
    HeaderLine(<<"C","o","n","t","e","n","t","-","T","y","p","e">>, <<"t","e","x","t","/","h","t","m","l",";"," ","c","h","a","r","s","e","t","=","U","T","F","-","8">>)
    \o HeaderLine(<<"F","r","o","m">>, from)
    \o HeaderLine(<<"S","u","b","j","e","c","t">>, subject)
    \o HeaderLine(<<"T","o">>, to)

\* the recipients taken from to and cc
SendMailRecipientsWithCc(m) == addressesToStrings(m.To \o m.Cc, FALSE)

\* line 41: toAddresses
SendMailRecipients(m) == addressesToStrings(m.To, FALSE)

\* lines 57-65: the HTML body when there is one, else the text body
SendMailBody(m) == IF m.HTML # <<>> THEN m.HTML ELSE m.Text

\* lines 40-68: the command SendMail.Send builds
SendMailCommand(c, m) ==
    LET toAddresses == SendMailRecipients(m) IN
    [path |-> c.CmdPath,
     args |-> <<Join(toAddresses, <<",">>)>>,
     stdin |-> WriteHeaders(QEncode(m.Subject), FormatAddress(m.From, TRUE),
                            Join(toAddresses, <<",">>))
               \o <<"\r","\n">> \o SendMailBody(m)]

NoProc == [path |-> "", args |-> <<>>, stdin |-> <<>>]

SendMailIdle ==
    /\ proc = NoProc
    /\ smRes = "none"

RcptPadded == [Name |-> <<"Z","e","d">>, Address |-> <<" ","z","@","y",".","c","o","m">>]
RcptTwoLines == [Name |-> <<>>, Address |-> <<"w","@","y",".","c","o","m","\n","v","@","y",".","c","o","m">>]

\* the messages a caller hands to SendMail.Send
SendMailMessages ==
    { [From |-> f, To |-> t, Cc |-> r[1], Bcc |-> r[2], Subject |-> s, HTML |-> b[1],
       Text |-> b[2], Attachments |-> r[3], Headers |-> r[4]] :
        f \in {NoAddress, AddrAB, AddrXY},
        t \in {<<>>, <<[Name |-> <<>>, Address |-> <<"x","@","y",".","c","o","m">>]>>, <<RcptBob, RcptCy>>,
               <<RcptPadded>>, <<RcptCy, RcptTwoLines>>},
        r \in { <<<<>>, <<>>, {}, <<>>>>,
                <<<<RcptDee>>, <<RcptCy>>, {"a.txt"}, [k \in {<<"X","-","T","a","g">>} |-> <<"t">>]>> },
        s \in {<<>>, <<"H","i">>, <<"H", "i", " ", EAcute>>, <<" ","H","i","?">>},
        b \in {<<<<>>, <<>>>>, <<<<"<","p",">","h","i","<","/","p",">">>, <<>>>>, <<<<>>, <<"h","i">>>>, <<<<"<","p",">","h","i","<","/","p",">">>, <<"h","i">>>>} }

SendMailClients == {[CmdPath |-> "/usr/sbin/sendmail"], [CmdPath |-> "/opt/msmtp/sendmail"]}

\* c.Send(m): the command is built and run; Run reports the exit of the process
SendMailSend(c) ==
    /\ smRes = "none"
    /\ proc' = SendMailCommand(c, msg)
    /\ smRes' \in {"ok", "exit error"}
    /\ UNCHANGED msg

SendMailInit ==
    /\ msg \in SendMailMessages
    /\ origFrom = msg.From
    /\ lastArg = NoMessage
    /\ lastClient = NoClient
    /\ smtpAuth = NoAuth
    /\ yak = NoMail
    /\ sendRes = "none"
    /\ sends = 0
    /\ proc = NoProc
    /\ smRes = "none"

NextSendMail ==
    \E c \in SendMailClients :
        SendMailSend(c)
        /\ UNCHANGED <<authVars, randVars, origFrom, lastArg, lastClient, smtpAuth, yak,
                       sendRes, sends, plugVars>>

-----------------------------------------------------------------------------
(* Plugin.Init *)

ErrDisabled == "disabled"
ErrDecode == "decode error"
ErrNotFound == "executable file not found"
ErrLocate == "failed to locate a sendmail executable path"

\* a path: the directory ("" for a bare command name) and the file name
Path(dir, base) == [dir |-> dir, base |-> base]
EmptyPath == Path("", "")

\* the directories of $PATH, in order
PathDirs == <<"/usr/local/bin", "/usr/bin">>

\* exec.LookPath: a name with a directory is taken as it is when it is an
\* executable; a bare name is looked for in the directories of $PATH
LookPath(file, files) ==
    IF file.dir # ""
    THEN IF file \in files THEN [path |-> file, err |-> NoErr]
         ELSE [path |-> EmptyPath, err |-> ErrNotFound]
    ELSE LET hits == {i \in 1..Len(PathDirs) : Path(PathDirs[i], file.base) \in files} IN
         IF file.base = "" \/ hits = {}
         THEN [path |-> EmptyPath, err |-> ErrNotFound]
         ELSE [path |-> Path(PathDirs[CHOOSE i \in hits : \A j \in hits : i <= j], file.base),
               err |-> NoErr]

SendmailOptions ==
    <<Path("/usr/sbin", "sendmail"), Path("/usr/bin", "sendmail"), Path("", "sendmail")>>

\* findSendmailPath: the first option LookPath resolves
findSendmailPath(files) ==
    LET ok == {i \in 1..Len(SendmailOptions) : LookPath(SendmailOptions[i], files).err = NoErr} IN
    IF ok = {} THEN [path |-> EmptyPath, err |-> ErrLocate]
    ELSE LookPath(SendmailOptions[CHOOSE i \in ok : \A j \in ok : i <= j], files)

NoMailer == [kind |-> "none", client |-> NoClient, CmdPath |-> EmptyPath]

\* Init with the mailer stored before the command path is resolved
InitResultEarlyStore(c, files) ==
    IF ~c.hasSmtp /\ ~c.hasSendmail THEN [mailer |-> NoMailer, err |-> ErrDisabled]
    ELSE IF c.hasSmtp
    THEN IF ~c.smtpDecodes THEN [mailer |-> NoMailer, err |-> ErrDecode]
         ELSE [mailer |-> [kind |-> "smtp", client |-> c.smtp, CmdPath |-> EmptyPath],
               err |-> NoErr]
    ELSE IF ~c.sendmailDecodes THEN [mailer |-> NoMailer, err |-> ErrDecode]
    ELSE LET found == IF c.cmdPath = EmptyPath THEN findSendmailPath(files)
                      ELSE LookPath(c.cmdPath, files) IN
         IF found.err # NoErr
         THEN [mailer |-> [kind |-> "sendmail", client |-> NoClient, CmdPath |-> c.cmdPath],
               err |-> found.err]
         ELSE [mailer |-> [kind |-> "sendmail", client |-> NoClient, CmdPath |-> found.path],
               err |-> NoErr]

\* Plugin.Init: the mailer it stores (NoMailer when it stores none) and its error
InitResult(c, files) ==
    IF ~c.hasSmtp /\ ~c.hasSendmail THEN [mailer |-> NoMailer, err |-> ErrDisabled]
    ELSE IF c.hasSmtp
    THEN IF ~c.smtpDecodes THEN [mailer |-> NoMailer, err |-> ErrDecode]
         ELSE [mailer |-> [kind |-> "smtp", client |-> c.smtp, CmdPath |-> EmptyPath],
               err |-> NoErr]
    ELSE IF ~c.sendmailDecodes THEN [mailer |-> NoMailer, err |-> ErrDecode]
    ELSE LET found == IF c.cmdPath = EmptyPath THEN findSendmailPath(files)
                      ELSE LookPath(c.cmdPath, files) IN
         IF found.err # NoErr THEN [mailer |-> NoMailer, err |-> found.err]
         ELSE [mailer |-> [kind |-> "sendmail", client |-> NoClient, CmdPath |-> found.path],
               err |-> NoErr]

NoConfig ==
    [hasSmtp |-> FALSE, hasSendmail |-> FALSE, smtpDecodes |-> FALSE,
     sendmailDecodes |-> FALSE, smtp |-> NoClient, cmdPath |-> EmptyPath]

PluginIdle ==
    /\ cfg = NoConfig
    /\ fs = {}
    /\ pMailer = NoMailer
    /\ initRes = "not called"
    /\ provided = NoMailer

\* the executables a machine may hold
Executables ==
    { Path("/usr/sbin", "sendmail"), Path("/usr/bin", "sendmail"),
      Path("/usr/local/bin", "sendmail"), Path("/opt/msmtp", "sendmail"),
      Path("/usr/local/bin", "msmtp") }

\* the configurations: which keys exist, whether they decode, and what they hold
Configs ==
    [hasSmtp : BOOLEAN, hasSendmail : BOOLEAN, smtpDecodes : BOOLEAN,
     sendmailDecodes : BOOLEAN,
     smtp : {[Host |-> "smtp.example.com", Port |-> 587, Username |-> "test",
              Password |-> "123456", Tls |-> TRUE, AuthMethod |-> SmtpAuthLogin,
              From |-> AddrAB]},
     cmdPath : {EmptyPath, Path("", "msmtp"), Path("/opt/msmtp", "sendmail"),
                Path("", "sendmail")}]

\* a new Plugin, its mailer unset, on a machine with some executables
PluginInit ==
    /\ cfg \in Configs
    /\ fs \in SUBSET Executables
    /\ pMailer = NoMailer
    /\ initRes = "not called"
    /\ provided = NoMailer

\* p.Init(cfg), called once at startup
Init ==
    /\ initRes = "not called"
    /\ LET r == InitResult(cfg, fs) IN
        /\ pMailer' = r.mailer
        /\ initRes' = r.err
    /\ UNCHANGED <<cfg, fs, provided>>

\* p.Mailer(), what Provides binds: the mailer field as Init left it
Mailer ==
    /\ initRes # "not called"
    /\ provided' = pMailer
    /\ UNCHANGED <<cfg, fs, pMailer, initRes>>

NextPlugin ==
    \/ Init /\ UNCHANGED <<authVars, randVars, sendVars, smVars>>
    \/ Mailer /\ UNCHANGED <<authVars, randVars, sendVars, smVars>>

-----------------------------------------------------------------------------
(* Specifications: one per part of the package; the other parts stay idle *)

\* Send calls of SMTP clients on one Message of a caller
InitSend == AuthInit /\ RandInit /\ SendInit /\ SendMailIdle /\ PluginIdle

Spec == InitSend /\ [][NextSend]_vars

\* one SMTP session authenticating with smtpLoginAuth
InitAuth == AuthInit /\ RandIdle /\ SendIdle /\ SendMailIdle /\ PluginIdle

SpecAuth == InitAuth /\ [][NextAuth]_vars

\* SendMail.Send on one Message of a caller
InitSendMail == AuthInit /\ RandIdle /\ SendMailInit /\ PluginIdle

SpecSendMail == InitSendMail /\ [][NextSendMail]_vars

\* Plugin.Init at startup
InitPlugin == AuthInit /\ RandIdle /\ SendIdle /\ SendMailIdle /\ PluginInit

SpecPlugin == InitPlugin /\ [][NextPlugin]_vars

\* concurrent callers of PseudorandomString
InitRand == AuthInit /\ RandInit /\ SendIdle /\ SendMailIdle /\ PluginIdle

SpecRand == InitRand /\ [][NextRand]_vars

-----------------------------------------------------------------------------
(* Properties of the LOGIN authenticator *)

LoopbackNames == {"localhost", "127.0.0.1", "::1"}

\* fromServer equals word when letter case is ignored
SamePromptIgnoringCase(fromServer, word) ==
    /\ Len(fromServer) = Len(word)
    /\ \A i \in 1..Len(word) : ToLowerCh(fromServer[i]) = word[i]

\* C1: Start returns an error if and only if the server info has TLS false and a
\* name that is none of localhost, 127.0.0.1, ::1; in every other case it returns
\* no error, the mechanism LOGIN and an empty initial payload.
C1_StartGate ==
    startRes # NoStart =>
        LET refused == ~srv.TLS /\ srv.Name \notin LoopbackNames IN
        /\ (startRes.err # NoErr) <=> refused
        /\ ~refused => /\ startRes.err = NoErr
                       /\ startRes.mech = "LOGIN"
                       /\ startRes.resp.data = ""

\* C1 witness: Start has accepted the loopback host ::1 without TLS
C1_Witness ==
    /\ startRes # NoStart
    /\ ~srv.TLS /\ srv.Name = "::1"
    /\ startRes.mech = "LOGIN"

\* C2: in a session with the LOGIN authenticator over a connection that is neither
\* TLS-protected nor to a loopback host, the send fails with the authentication
\* error, no response of the authenticator (username, password) is ever written
\* to the server, whatever the server sends, and no message is transmitted.
C2_NoCredentialLeak ==
    (apc # "init" /\ ~srv.TLS /\ srv.Name \notin LoopbackNames) =>
        /\ emitted = <<>>
        /\ ~nextIn.called
        /\ ~transmitted
        /\ apc \in {"connected", "failed"}
        /\ apc = "failed" => sendErr = ErrUnencrypted

\* C2 witness: a session to example.com without TLS has ended in the refusal
C2_Witness ==
    /\ apc = "failed"
    /\ ~srv.TLS /\ srv.Name = "example.com"
    /\ sess.Username = "test" /\ sess.Password = "123456"
    /\ sendErr = ErrUnencrypted

\* C3: Next never returns an error; it returns the username when more is true and
\* the prompt is "username:" ignoring case, the password when more is true and the
\* prompt is "password:" ignoring case, and an empty response in every other case.
C3_NextResponse ==
    nextIn.called =>
        /\ nextRes.err = NoErr
        /\ nextRes.resp.data =
             IF nextIn.more /\ SamePromptIgnoringCase(nextIn.fromServer, UsernamePrompt)
             THEN sess.Username
             ELSE IF nextIn.more /\ SamePromptIgnoringCase(nextIn.fromServer, PasswordPrompt)
                  THEN sess.Password
                  ELSE ""

\* C3 witness: Next has answered the prompt "uSeRnAmE:" with the username
C3_Witness ==
    /\ nextIn.called /\ nextIn.more
    /\ nextIn.fromServer = <<"u","S","e","R","n","A","m","E",":">>
    /\ nextRes.resp = Bytes("test")

-----------------------------------------------------------------------------
(* Concurrent calls of PseudorandomString *)

\* the generator as every step of one caller leaves it: tap and feed inside the
\* array and RngTapOff apart
RngConsistent ==
    /\ mr.tap \in 0..(RngLen - 1)
    /\ mr.feed \in 0..(RngLen - 1)
    /\ (mr.feed - mr.tap) % RngLen = (RngLen - RngTapOff) % RngLen

\* C4: concurrent calls need no external synchronization: under every
\* interleaving no call is lost to a panic, the generator is consistent whenever
\* no call is inside it, and each finished call holds a string of exactly the
\* requested length over the alphabet.
C4_ConcurrentCallsSafe ==
    /\ \A c \in Callers : cpc[c] # "panic"
    /\ (\A c \in Callers : cpc[c] \in {"idle", "done"}) => RngConsistent
    /\ \A c \in Callers :
        cpc[c] = "done" =>
            /\ Len(cbuf[c]) = clen[c]
            /\ \A i \in 1..Len(cbuf[c]) :
                \E j \in 1..Len(defaultRandomAlphabet) : cbuf[c][i] = defaultRandomAlphabet[j]

\* C4 witness: two calls have run to their end, at least one of them with a string
C4_Witness ==
    /\ \A c \in Callers : cpc[c] = "done"
    /\ \E c \in Callers : clen[c] = MaxIdLen /\ Len(cbuf[c]) = MaxIdLen

-----------------------------------------------------------------------------
(* Properties of SmtpClient.Send *)

\* the last Send got past the connection setup and assembled a mail
Assembled == sendRes \in {"ok", "send error"}

\* the from address the last Send worked with, after the default filling
EffectiveFrom ==
    IF lastArg.From.Address = <<>> THEN lastClient.From.Address ELSE lastArg.From.Address

AtPositions(s) == {i \in 1..Len(s) : s[i] = "@"}

\* a key of the caller's headers is Message-ID when letter case is ignored
CallerGaveMessageId ==
    \E k \in DOMAIN lastArg.Headers :
        /\ Len(k) = Len(MessageIDName)
        /\ \A i \in 1..Len(k) : ToLowerCh(k[i]) = ToLowerCh(MessageIDName[i])

\* the headers of the assembled mail that are not the caller's
AddedHeaders == yak.headers \ {<<k, lastArg.Headers[k]>> : k \in DOMAIN lastArg.Headers}

\* v is '<', MessageIdLen runes of the alphabet, '@', the part of from after its '@', '>'
IsDefaultMessageId(v, from) ==
    LET at == CHOOSE i \in AtPositions(from) : TRUE
        domain == SubSeq(from, at + 1, Len(from))
    IN /\ Len(v) = MessageIdLen + Len(domain) + 3
       /\ v[1] = "<"
       /\ \A i \in 2..(MessageIdLen + 1) :
            \E j \in 1..Len(defaultRandomAlphabet) : v[i] = defaultRandomAlphabet[j]
       /\ v[MessageIdLen + 2] = "@"
       /\ SubSeq(v, MessageIdLen + 3, Len(v) - 1) = domain
       /\ v[Len(v)] = ">"

\* C5: the mail Send assembles gets a synthesized Message-ID header if and only if
\* no key of Message.Headers equals "Message-ID" ignoring case and the effective
\* from address has exactly one '@'; its value is '<' + a 15-character id + '@' +
\* the part of the from address after the '@' + '>'.
C5_DefaultMessageId ==
    Assembled =>
        /\ (AddedHeaders # {}) <=>
             (~CallerGaveMessageId /\ Cardinality(AtPositions(EffectiveFrom)) = 1)
        /\ Cardinality(AddedHeaders) <= 1
        /\ \A h \in AddedHeaders :
             h[1] = <<"M","e","s","s","a","g","e","-","I","D">> /\ IsDefaultMessageId(h[2], EffectiveFrom)

\* C5 witness: a Message-ID was synthesized for a message whose empty from was
\* filled with the client's a@b.com
C5_Witness ==
    /\ Assembled
    /\ lastArg.From.Address = <<>>
    /\ lastClient.From.Address = <<"a","@","b",".","c","o","m">>
    /\ \E h \in yak.headers : h[1] = <<"M","e","s","s","a","g","e","-","I","D">> /\ SubSeq(h[2], MessageIdLen + 2, Len(h[2])) = <<"@","b",".","c","o","m",">">>

\* C6: when the caller's Message was constructed with an empty from, each send's
\* effective from equals the default of the transport performing it: no value of
\* an earlier send is carried in the caller's Message into a later one.
C6_NoCrossCallLeak ==
    (Assembled /\ origFrom.Address = <<>> /\ lastClient.From.Address # <<>>) =>
        yak.from = lastClient.From.Address

\* C6 witness: a Message with an empty from has been sent twice
C6_Witness ==
    /\ sends = 2
    /\ Assembled
    /\ origFrom.Address = <<>>
    /\ lastClient.From.Address = <<"x","@","y",".","o","r","g">>

\* the strings of a list of addresses, each bare
BareList(l) == [i \in 1..Len(l) |-> l[i].Address]

\* the strings of a list of addresses, each with its display name when it has one
NamedList(l) ==
    [i \in 1..Len(l) |->
        IF l[i].Name = <<>> THEN l[i].Address
        ELSE <<"\"">> \o l[i].Name \o <<"\""," ","<">> \o l[i].Address \o <<">">>]

\* C7 as stated: the recipients handed to the SMTP session are exactly the
\* addresses of to, cc and bcc, each a bare address even when it has a name.
C7_RecipientsBare ==
    Assembled =>
        /\ yak.to = BareList(lastArg.To)
        /\ yak.cc = BareList(lastArg.Cc)
        /\ yak.bcc = BareList(lastArg.Bcc)

\* C7 amended: the recipients handed to the SMTP session are exactly the addresses
\* of to, cc and bcc, in order, none dropped and none added; each is the bare
\* address when the Address has no name and "name" <address> when it has one.
C7_RecipientsNamed ==
    Assembled =>
        /\ yak.to = NamedList(lastArg.To)
        /\ yak.cc = NamedList(lastArg.Cc)
        /\ yak.bcc = NamedList(lastArg.Bcc)

\* C7 witness: a mail with one to, one cc and two bcc recipients, named ones among them
C7_Witness ==
    /\ Assembled
    /\ lastArg.To = <<RcptBob>> /\ lastArg.Cc = <<RcptDee>> /\ lastArg.Bcc = <<RcptCy, RcptBob>>
    /\ yak.bcc = <<<<"c","y","@","c",".","i","o">>, <<"\"","B","o","b","\""," ","<","b","o","b","@","b",".","c","o","m",">">>>>

\* C10: Send attaches an authenticator if and only if the username or the password
\* is non-empty; it is the LOGIN one exactly when the method is "LOGIN" and PLAIN
\* (host, username, password) for every other method, the empty one included.
C10_AuthSelection ==
    sends > 0 =>
        LET c == lastClient IN
        /\ (smtpAuth.kind # "none") <=> (c.Username # "" \/ c.Password # "")
        /\ smtpAuth.kind # "none" =>
             /\ (smtpAuth.kind = "LOGIN") <=> (c.AuthMethod = "LOGIN")
             /\ (smtpAuth.kind # "LOGIN") =>
                  (smtpAuth.kind = "PLAIN" /\ smtpAuth.host = c.Host)
             /\ smtpAuth.username = c.Username
             /\ smtpAuth.password = c.Password
        /\ Assembled => yak.auth = smtpAuth

\* C10 witness: a client with a password only and no method got PLAIN
C10_Witness ==
    /\ sends > 0
    /\ lastClient.Username = "" /\ lastClient.Password = "123456"
    /\ lastClient.AuthMethod = ""
    /\ smtpAuth.kind = "PLAIN"

-----------------------------------------------------------------------------
(* Properties of SendMail.Send *)

\* the bare to addresses, joined with commas
JoinedTo == Join(BareList(msg.To), <<",">>)

\* the header block up to the To header, and what follows the To header
StreamBeforeTo ==
    <<"C","o","n","t","e","n","t","-","T","y","p","e",":"," ","t","e","x","t","/","h","t","m","l",";"," ","c","h","a","r","s","e","t","=","U","T","F","-","8","\r","\n">>
    \o <<"F","r","o","m",":"," ">> \o HeaderValue(FormatAddress(msg.From, TRUE)) \o <<"\r","\n">>
    \o <<"S","u","b","j","e","c","t",":"," ">> \o HeaderValue(QEncode(msg.Subject)) \o <<"\r","\n">>

StreamAfterTo ==
    <<"\r","\n">> \o <<"\r","\n">> \o (IF msg.HTML # <<>> THEN msg.HTML ELSE msg.Text)

\* C8 as stated: the sole argument is the comma-joined bare to addresses; the
\* input is the header block (Subject, From, Content-Type: text/html;
\* charset=UTF-8, To = the same joined list), a blank line, and the body: HTML
\* when non-empty, else Text; neither depends on cc, bcc, attachments or headers.
C8_ToHeaderIsArgument ==
    smRes # "none" =>
        /\ proc.args = <<JoinedTo>>
        /\ proc.stdin = StreamBeforeTo \o <<"T","o",":"," ">> \o JoinedTo \o StreamAfterTo

\* C8 amended: as stated, except that the To header holds the joined list with
\* each CR and LF replaced by a space and the white space at its ends removed.
C8_SendMailStream ==
    smRes # "none" =>
        /\ proc.args = <<JoinedTo>>
        /\ proc.stdin = StreamBeforeTo \o <<"T","o",":"," ">> \o HeaderValue(JoinedTo) \o StreamAfterTo

\* C8 witness: a text-only message with cc, bcc, an attachment and a header of
\* the caller went to two recipients
C8_Witness ==
    /\ smRes = "ok"
    /\ msg.HTML = <<>> /\ msg.Text = <<"h","i">>
    /\ msg.Cc # <<>> /\ msg.Bcc # <<>> /\ msg.Attachments # {} /\ DOMAIN msg.Headers # {}
    /\ proc.args = <<<<"b","o","b","@","b",".","c","o","m",",","c","y","@","c",".","i","o">>>>

-----------------------------------------------------------------------------
(* Properties of Plugin.Init *)

\* C9: when Init returns nil the mailer is exactly one transport: the SMTP client
\* whenever the smtp key is present, else the sendmail client with a non-empty
\* resolved CmdPath; with neither key Init reports Disabled; and whenever Init
\* fails the plugin's mailer stays unset, so none is provided.
C9_InitSelectsOne ==
    initRes # "not called" =>
        /\ initRes = NoErr =>
             /\ cfg.hasSmtp \/ cfg.hasSendmail
             /\ cfg.hasSmtp => (pMailer.kind = "smtp" /\ pMailer.client = cfg.smtp)
             /\ ~cfg.hasSmtp =>
                  /\ pMailer.kind = "sendmail"
                  /\ pMailer.CmdPath # EmptyPath
                  /\ pMailer.CmdPath \in fs
        /\ (~cfg.hasSmtp /\ ~cfg.hasSendmail) => initRes = ErrDisabled
        /\ initRes # NoErr => (pMailer = NoMailer /\ provided = NoMailer)

\* C9 witness: Init has failed because the configured command does not resolve,
\* and p.Mailer() was asked afterwards
C9_Witness ==
    /\ initRes = ErrNotFound
    /\ ~cfg.hasSmtp /\ cfg.hasSendmail /\ cfg.cmdPath = Path("", "msmtp")
    /\ Path("/usr/sbin", "sendmail") \in fs
    /\ provided = NoMailer

====
